---- MODULE Spec2Model ----
(***************************************************************************)
(* scanserv.py: a command-line client of a scanner server.  The model      *)
(* holds the Scanner object (devices, device_id), the local directory      *)
(* tree the client writes into, and the trace of the last operation: the   *)
(* HTTP requests it issued, the lines it printed and the files it opened.  *)
(* The server and the local disk are the environment: every response and   *)
(* every write outcome is chosen nondeterministically.                     *)
(***************************************************************************)
EXTENDS Integers, Sequences, FiniteSets, TLC

\* ---------------------------------------------------------------- bounds
MaxDevices == 2      \* longest device list the server returns
MaxFiles == 2        \* longest remote file list the server returns
MaxStrLen == 2       \* longest device-number string handed to int()

\* ------------------------------------------------------ program constants
A4Width == 210
A4Height == 297
DefaultDevice == 1
DefaultResolution == 200
ExitFatal == 1       \* sys.exit(1), and the status of an uncaught exception
ExitUsage == 2       \* argparse's parser.error
Running == 0 - 1     \* no exit status yet

\* ------------------------------------------------- Python optional values
NoneStr == [some |-> FALSE, val |-> ""]
NoneInt == [some |-> FALSE, val |-> 0]
NoneRaw == [some |-> FALSE, val |-> <<>>]
Some(v) == [some |-> TRUE, val |-> v]

\* Truthiness of an optional string: `if x:` is false for None and for "".
Truthy(o) == o.some /\ o.val # ""

\* ------------------------------------------------------- input alphabets
Devs == { [id |-> "dev1", name |-> "Canon"],
          [id |-> "dev2", name |-> "Epson"],
          [id |-> "",     name |-> "Ghost"] }
\* lists without repetition: the server names each device, and each file, once
Distinct(S, k) == { f \in [1..k -> S] : \A i, j \in 1..k : i # j => f[i] # f[j] }
DeviceLists == UNION { Distinct(Devs, k) : k \in 0..MaxDevices }

Names == {"a.jpg", "b.jpg", "c.jpg"}
FileInfo(n) == [name |-> n, sizeString |-> "1 KB"]
FileLists == UNION { Distinct({FileInfo(n) : n \in Names}, k) : k \in 0..MaxFiles }

Dirs == {"", "scans"}
OptDirs == {NoneStr} \cup {Some(d) : d \in Dirs}

Chars == {"1", "x"}
Strings == UNION { [1..k -> Chars] : k \in 0..MaxStrLen }
DevInt(i) == [t |-> "int", i |-> i, s |-> <<>>]
DevStr(s) == [t |-> "str", i |-> 0, s |-> s]
DevNone == [t |-> "none", i |-> 0, s |-> <<>>]
DeviceNumbers == {DevInt(i) : i \in (0 - 1)..(MaxDevices + 1)}
                 \cup {DevStr(s) : s \in Strings} \cup {DevNone}

ScanParams ==
  { [resolution |-> Some(200), mode |-> Some("Color"), quality |-> Some("high")],
    [resolution |-> Some(300), mode |-> Some("Gray"),  quality |-> Some("low")] }

\* ------------------------------------------------------------- int(value)
IsDigit(c) == c \in {"0", "1", "2", "3", "4", "5", "6", "7", "8", "9"}
DigitVal(c) == CASE c = "0" -> 0 [] c = "1" -> 1 [] c = "2" -> 2 [] c = "3" -> 3
                 [] c = "4" -> 4 [] c = "5" -> 5 [] c = "6" -> 6 [] c = "7" -> 7
                 [] c = "8" -> 8 [] OTHER -> 9

RECURSIVE DigitsVal(_)
DigitsVal(s) == IF s = <<>> THEN 0
                ELSE 10 * DigitsVal(SubSeq(s, 1, Len(s) - 1)) + DigitVal(s[Len(s)])

AllDigits(s) == s # <<>> /\ \A i \in 1..Len(s) : IsDigit(s[i])

\* Python's int(): an int is itself, a string is an optional sign followed by
\* one or more digits (else ValueError), None raises TypeError.
PyInt(n) ==
  IF n.t = "int" THEN [exc |-> "none", val |-> n.i]
  ELSE IF n.t = "none" THEN [exc |-> "TypeError", val |-> 0]
  ELSE IF n.s # <<>> /\ n.s[1] \in {"-", "+"} /\ AllDigits(Tail(n.s))
       THEN [exc |-> "none",
             val |-> IF n.s[1] = "-" THEN 0 - DigitsVal(Tail(n.s)) ELSE DigitsVal(Tail(n.s))]
  ELSE IF AllDigits(n.s) THEN [exc |-> "none", val |-> DigitsVal(n.s)]
  ELSE [exc |-> "ValueError", val |-> 0]

\* ------------------------------------------------- trace of an operation
E0 == [k |-> "", m |-> "", res |-> "", name |-> "", resp |-> "", n |-> 0,
       body |-> <<>>, reply |-> <<>>, path |-> <<>>]
\* a request (method, resource, file name, JSON body) and the answer it got
\* (resp: "ok" for 200, "bad" for another status, "neterr"; reply: the answer)
HttpEv(m, res, name, body, r) ==
  [E0 EXCEPT !.k = "http", !.m = m, !.res = res, !.name = name, !.body = body,
             !.resp = r.st, !.reply = <<r>>]
PrintEv(msg, name, n) == [E0 EXCEPT !.k = "print", !.m = msg, !.name = name, !.n = n]
OpenEv(path, ok) ==
  [E0 EXCEPT !.k = "open", !.path = path, !.resp = IF ok THEN "ok" ELSE "OSError"]
MkdirEv(dir, outcome) == [E0 EXCEPT !.k = "makedirs", !.name = dir, !.resp = outcome]

Log(s, e) == [s EXCEPT !.log = Append(s.log, e)]

\* requests.get / requests.post: one request on the wire per call.
Send_retry(s, m, res, name, body, r) ==
  IF r.st = "ok" THEN Log(s, HttpEv(m, res, name, body, r))
  ELSE Log(Log(s, HttpEv(m, res, name, body, r)), HttpEv(m, res, name, body, r))
Send(s, m, res, name, body, r) == Log(s, HttpEv(m, res, name, body, r))

\* return values
RetNone == [k |-> "none", list |-> <<>>, path |-> <<>>]
RetList(l) == [k |-> "list", list |-> l, path |-> <<>>]
RetPath(p) == [k |-> "path", list |-> <<>>, path |-> p]
Result(s, ret, exc) == [s |-> s, ret |-> ret, exc |-> exc]

\* ------------------------------------------------ environment responses
ContextResps ==
  { [st |-> "neterr", has |-> FALSE, devs |-> <<>>],
    [st |-> "bad",    has |-> FALSE, devs |-> <<>>],
    [st |-> "ok",     has |-> FALSE, devs |-> <<>>] }
  \cup { [st |-> "ok", has |-> TRUE, devs |-> d] : d \in DeviceLists }
FilesResps ==
  { [st |-> "neterr", files |-> <<>>], [st |-> "bad", files |-> <<>>] }
  \cup { [st |-> "ok", files |-> f] : f \in FileLists }
FileResps ==
  { [st |-> "ok", wr |-> TRUE], [st |-> "ok", wr |-> FALSE],
    [st |-> "bad", wr |-> TRUE], [st |-> "neterr", wr |-> TRUE] }
ScanResps ==
  { [st |-> "neterr", has |-> FALSE, name |-> ""],
    [st |-> "bad",    has |-> FALSE, name |-> ""],
    [st |-> "ok",     has |-> FALSE, name |-> ""] }
  \cup { [st |-> "ok", has |-> TRUE, name |-> n] : n \in Names }

\* ------------------------------------------------------ local file system
\* os.path.join of a directory and a plain file name, as path components.
os_path_join(a, b) == IF a = "" THEN <<b>> ELSE <<a, b>>

\* os.makedirs(d, exist_ok=...): creates d; an existing d is left as it is, and
\* is an error (FileExistsError, an OSError) unless exist_ok.
ExistOk == TRUE
makedirs(s, d) ==
  IF d \in s.dirs
  THEN IF ExistOk THEN [s |-> Log(s, MkdirEv(d, "exists")), exc |-> "none"]
       ELSE [s |-> Log(s, MkdirEv(d, "FileExistsError")), exc |-> "OSError"]
  ELSE [s |-> [Log(s, MkdirEv(d, "created")) EXCEPT !.dirs = s.dirs \cup {d}],
        exc |-> "none"]

\* open(local_path, 'wb') succeeds when the parent directory exists and the
\* disk accepts the write (wr, chosen by the environment).
ParentExists(path, dirs) == Len(path) = 1 \/ path[1] \in dirs

\* ----------------------------------------------------- Scanner.list_scanners
RECURSIVE DevicePrints(_, _)
DevicePrints(devs, i) ==
  IF i > Len(devs) THEN <<>>
  ELSE <<PrintEv("ID", devs[i].id, i), PrintEv("Name", devs[i].name, i)>>
       \o DevicePrints(devs, i + 1)

list_scanners(s, r) ==
  LET s1 == Send(s, "GET", "context", "", <<>>, r) IN
  IF r.st = "ok" THEN
    LET devs == IF r.has THEN r.devs ELSE <<>>
        s2 == [s1 EXCEPT !.devices = devs,
                         !.log = s1.log \o <<PrintEv("Available scanners:", "", 0)>>
                                        \o DevicePrints(devs, 1)]
    IN Result(s2, RetList(devs), "none")
  ELSE IF r.st = "bad" THEN Result(Log(s1, PrintEv("Error", "", 0)), RetList(<<>>), "none")
  ELSE Result(Log(s1, PrintEv("Connection error", "", 0)), RetList(<<>>), "none")

\* ---------------------------------------------------- Scanner.select_scanner
IndexOf_keep(v) == v
IndexOf(v) == v - 1

ValidIndex(index, devs) == 0 <= index /\ index < Len(devs)

select_scanner(s, device_number, r) ==
  LET a == IF s.devices = <<>> THEN list_scanners(s, r).s ELSE s IN
  IF a.devices = <<>> THEN
    Result(Log(a, PrintEv("No scanners found", "", 0)), RetNone, "SystemExit")
  ELSE
    LET p == PyInt(device_number) IN
    IF p.exc = "ValueError" THEN
      Result(Log(a, PrintEv("Invalid scanner number", "", 0)), RetNone, "SystemExit")
    ELSE IF p.exc = "TypeError" THEN Result(a, RetNone, "TypeError")
    ELSE
      LET index == IndexOf(p.val) IN
      IF ValidIndex(index, a.devices) THEN
        Result(Log([a EXCEPT !.device_id = Some(a.devices[index + 1].id)],
                   PrintEv("Selected scanner", a.devices[index + 1].name, 0)),
               RetNone, "none")
      ELSE
        Result(Log(a, PrintEv("Invalid scanner number. Please choose between 1 and",
                              "", Len(a.devices))),
               RetNone, "SystemExit")

\* -------------------------------------------------------- Scanner.list_files
RECURSIVE FilePrints(_, _)
FilePrints(files, i) ==
  IF i > Len(files) THEN <<>>
  ELSE <<PrintEv("-", files[i].name, 0)>> \o FilePrints(files, i + 1)

list_files(s, r) ==
  LET s1 == Send(s, "GET", "files", "", <<>>, r) IN
  IF r.st = "ok" THEN
    Result(IF r.files # <<>>
           THEN [s1 EXCEPT !.log = s1.log \o <<PrintEv("Files on server:", "", 0)>>
                                          \o FilePrints(r.files, 1)]
           ELSE s1,
           RetList(r.files), "none")
  ELSE IF r.st = "bad" THEN Result(Log(s1, PrintEv("Error", "", 0)), RetList(<<>>), "none")
  ELSE Result(Log(s1, PrintEv("Connection error", "", 0)), RetList(<<>>), "none")

\* ----------------------------------------------------- Scanner.download_file
LocalPath_cwd(filename, output_dir) == <<filename>>
LocalPath(filename, output_dir) ==
  IF Truthy(output_dir) THEN os_path_join(output_dir.val, filename) ELSE <<filename>>

download_file(s, filename, output_dir, r) ==
  LET s1 == Send(s, "GET", "file", filename, <<>>, r) IN
  IF r.st = "ok" THEN
    LET local_path == LocalPath(filename, output_dir)
        mk == IF Truthy(output_dir) THEN makedirs(s1, output_dir.val)
              ELSE [s |-> s1, exc |-> "none"]
        s2 == mk.s
        written == r.wr /\ ParentExists(local_path, s2.dirs)
    IN IF mk.exc # "none" THEN Result(s2, RetNone, mk.exc)
       ELSE IF written
       THEN Result(Log(s2, OpenEv(local_path, TRUE)), RetPath(local_path), "none")
       ELSE Result(Log(s2, OpenEv(local_path, FALSE)), RetNone, "OSError")
  ELSE IF r.st = "bad"
    THEN Result(Log(s1, PrintEv("Error downloading", filename, 0)), RetNone, "none")
  ELSE Result(Log(s1, PrintEv("Connection error downloading", filename, 0)), RetNone, "none")

\* ------------------------------------------------------ Scanner.download_all
RECURSIVE download_loop(_, _, _, _, _)
download_loop(s, files, output_dir, outs, i) ==
  IF i > Len(files) THEN Result(s, RetNone, "none")
  ELSE
    LET filename == files[i].name
        r == download_file(Log(s, PrintEv("Downloading", filename, 0)),
                           filename, output_dir, outs[i])
    IN IF r.exc # "none" THEN r
       ELSE download_loop(IF r.ret.k = "path"
                          THEN Log(r.s, PrintEv("Saved to", filename, 0))
                          ELSE r.s,
                          files, output_dir, outs, i + 1)

download_all(s, output_dir, rl, outs) ==
  LET mk == IF Truthy(output_dir) THEN makedirs(s, output_dir.val)
            ELSE [s |-> s, exc |-> "none"]
      l == list_files(mk.s, rl)
      files == l.ret.list
  IN IF mk.exc # "none" THEN Result(mk.s, RetNone, mk.exc)
     ELSE IF files = <<>>
     THEN Result(Log(l.s, PrintEv("No files found on server", "", 0)), RetNone, "none")
     ELSE download_loop(Log(l.s, PrintEv("Found files", "", Len(files))),
                        files, output_dir, outs, 1)

\* ---------------------------------------------------------- Scanner.scan_a4
DeviceUnset_never(device_id) == FALSE
DeviceUnset(device_id) == ~Truthy(device_id)

DownloadRequested_truthy(output_dir) == Truthy(output_dir)
DownloadRequested(output_dir) == output_dir.some

scan_request_dev1(device_id, resolution, mode, quality) ==
  [ params |-> [ deviceId |-> "dev1", resolution |-> resolution, mode |-> mode,
                 width |-> A4Width, height |-> A4Height,
                 pageWidth |-> A4Width, pageHeight |-> A4Height,
                 top |-> 0, left |-> 0 ],
    pipeline |-> <<"JPG | @:pipeline.", quality, "-quality">> ]
scan_request(device_id, resolution, mode, quality) ==
  [ params |-> [ deviceId |-> device_id, resolution |-> resolution, mode |-> mode,
                 width |-> A4Width, height |-> A4Height,
                 pageWidth |-> A4Width, pageHeight |-> A4Height,
                 top |-> 0, left |-> 0 ],
    pipeline |-> <<"JPG | @:pipeline.", quality, "-quality">> ]

scan_a4(s, output_dir, p, rs, rd) ==
  IF DeviceUnset(s.device_id) THEN
    Result(Log(s, PrintEv("No scanner selected. Use --device to select a scanner.", "", 0)),
           RetNone, "none")
  ELSE
    LET mk == IF Truthy(output_dir) THEN makedirs(s, output_dir.val)
              ELSE [s |-> s, exc |-> "none"]
        req == scan_request(s.device_id.val, p.resolution, p.mode, p.quality)
        s2 == Send(Log(mk.s, PrintEv("Scanning...", "", 0)), "POST", "scan", "", <<req>>, rs)
    IN IF mk.exc # "none" THEN Result(mk.s, RetNone, mk.exc)
       ELSE IF rs.st = "ok" THEN
         IF rs.has THEN
           LET s3 == Log(Log(s2, PrintEv("Scan successful!", "", 0)),
                         PrintEv("File on server", rs.name, 0))
           IN IF DownloadRequested(output_dir) THEN
                LET d == download_file(Log(s3, PrintEv("Downloading...", "", 0)),
                                       rs.name, output_dir, rd)
                IN IF d.exc # "none" THEN d
                   ELSE IF d.ret.k = "path"
                     THEN Result(Log(d.s, PrintEv("Saved to", rs.name, 0)), d.ret, "none")
                   ELSE Result(d.s, RetNone, "none")
              ELSE Result(s3, RetNone, "none")
         ELSE Result(Log(s2, PrintEv("Scan completed but no file information returned",
                                     "", 0)), RetNone, "none")
       ELSE IF rs.st = "bad" THEN Result(Log(s2, PrintEv("Error", "", 0)), RetNone, "none")
       ELSE Result(Log(s2, PrintEv("Connection error", "", 0)), RetNone, "none")

\* ------------------------------------------------------------------ state
VARIABLES
  devices,     \* Scanner.devices: the cached device list
  device_id,   \* Scanner.device_id: the active device id, or None
  dirs,        \* the directories that exist under the working directory
  log,         \* what the last operation sent, printed, created and opened
  call,        \* the last operation and its arguments
  ret,         \* what the last operation returned
  exc,         \* the exception that left the last operation, "none" if it returned
  exitStatus,  \* the exit status of the process, Running while it runs
  pc,          \* the position in main(); "api" when the methods are called directly
  cfgFile,     \* the configuration file main() finds
  config,      \* what load_config returned
  argv,        \* sys.argv[1:], the command line
  args,        \* the namespace parse_args returned
  steps        \* the steps of main() entered so far, in order

vars == <<devices, device_id, dirs, log, call, ret, exc, exitStatus, pc,
          cfgFile, config, argv, args, steps>>

scanner == [devices |-> devices, device_id |-> device_id, dirs |-> dirs, log |-> <<>>]

NoParams == [resolution |-> NoneInt, mode |-> NoneStr, quality |-> NoneStr]
Call(op, filename, output_dir, n, p) ==
  [op |-> op, filename |-> filename, output_dir |-> output_dir, n |-> n, p |-> p]
NoCall == Call("", "", NoneStr, DevNone, NoParams)

\* The effect of one method call on the Scanner, the disk and the trace.  An
\* exception nobody catches ends the process with status 1.
Effect(r, c) ==
  /\ devices' = r.s.devices
  /\ device_id' = r.s.device_id
  /\ dirs' = r.s.dirs
  /\ log' = r.s.log
  /\ ret' = r.ret
  /\ exc' = r.exc
  /\ call' = c
  /\ exitStatus' = IF r.exc = "none" THEN Running ELSE ExitFatal

\* Scanner.__init__ and the state before main() has done anything.
InitScanner ==
  /\ devices = <<>>
  /\ device_id = NoneStr
  /\ dirs \in SUBSET {"scans"}
  /\ log = <<>>
  /\ call = NoCall
  /\ ret = RetNone
  /\ exc = "none"
  /\ exitStatus = Running
  /\ steps = <<>>

\* ------------------------------------------- the methods called directly
\* A caller of the Scanner class calls one method at a time (pc = "api") and
\* takes its result (pc = "returned") before the next call.
Unused == [x |-> 0]
ApiIdle == pc = "api" /\ exitStatus = Running
ApiKeep == UNCHANGED <<cfgFile, config, argv, args, steps>>
ApiCall(r, c) == Effect(r, c) /\ pc' = "returned" /\ ApiKeep

ListScanners ==
  /\ ApiIdle
  /\ \E r \in ContextResps :
       ApiCall(list_scanners(scanner, r),
               Call("list_scanners", "", NoneStr, DevNone, NoParams))

SelectScanner ==
  /\ ApiIdle
  /\ \E n \in DeviceNumbers, r \in ContextResps :
       ApiCall(select_scanner(scanner, n, r),
               Call("select_scanner", "", NoneStr, n, NoParams))

ListFiles ==
  /\ ApiIdle
  /\ \E r \in FilesResps :
       ApiCall(list_files(scanner, r), Call("list_files", "", NoneStr, DevNone, NoParams))

DownloadFile ==
  /\ ApiIdle
  /\ \E f \in Names, d \in OptDirs, r \in FileResps :
       ApiCall(download_file(scanner, f, d, r),
               Call("download_file", f, d, DevNone, NoParams))

DownloadAll ==
  /\ ApiIdle
  /\ \E d \in OptDirs, rl \in FilesResps :
       \E outs \in [1..Len(rl.files) -> FileResps] :
         ApiCall(download_all(scanner, d, rl, outs),
                 Call("download_all", "", d, DevNone, NoParams))

ScanA4 ==
  /\ ApiIdle
  /\ \E d \in OptDirs, p \in ScanParams, rs \in ScanResps, rd \in FileResps :
       ApiCall(scan_a4(scanner, d, p, rs, rd), Call("scan_a4", "", d, DevNone, p))

\* The caller has the result and is ready for its next call.
Return ==
  /\ pc = "returned"
  /\ exitStatus = Running
  /\ pc' = "api"
  /\ log' = <<>>
  /\ call' = NoCall
  /\ ret' = RetNone
  /\ UNCHANGED <<devices, device_id, dirs, exc, exitStatus>>
  /\ ApiKeep

InitApi ==
  /\ InitScanner
  /\ pc = "api"
  /\ cfgFile = Unused
  /\ config = Unused
  /\ argv = Unused
  /\ args = Unused

NextApi ==
  \/ ListScanners
  \/ SelectScanner
  \/ ListFiles
  \/ DownloadFile
  \/ DownloadAll
  \/ ScanA4
  \/ Return

SpecApi == InitApi /\ [][NextApi]_vars

\* ------------------------------------------------------------ load_config
TopKeys == {"server", "device", "scan", "files"}
ScanKeys == {"resolution", "mode", "quality"}
FilesKeys == {"output_dir"}

defaults ==
  [ server |-> "http://scan.home",
    device |-> DefaultDevice,
    scan   |-> [resolution |-> DefaultResolution, mode |-> "Color", quality |-> "high"],
    files  |-> [output_dir |-> "scans"] ]

\* A parsed config.toml holding the top-level keys K, the keys SK of [scan] and
\* the keys FK of [files], each with a value that is not the default.
Doc(K, SK, FK) ==
  [ k \in K |->
      CASE k = "server" -> "http://scanner.lan"
        [] k = "device" -> 2
        [] k = "scan"   -> [ j \in SK |-> CASE j = "resolution" -> 300
                                            [] j = "mode" -> "Gray"
                                            [] OTHER -> "low" ]
        [] OTHER        -> [ j \in FK |-> "out" ] ]

Absent == [st |-> "absent", doc |-> <<>>]       \* os.path.exists is false
Unparseable == [st |-> "bad", doc |-> <<>>]     \* open or tomli.load raises
Parsed(doc) == [st |-> "ok", doc |-> doc]

CfgFiles ==
  {Absent, Unparseable}
  \cup { Parsed(Doc(K, IF "scan" \in K THEN SK ELSE {}, IF "files" \in K THEN FK ELSE {})) :
           K \in SUBSET TopKeys, SK \in SUBSET ScanKeys, FK \in SUBSET FilesKeys }

\* dict: `k in d`, d.get(k), d[k] = v
Has(d, k) == k \in DOMAIN d
Get(d, k, none) == IF Has(d, k) THEN Some(d[k]) ELSE none
Put(d, k, v) == [ x \in DOMAIN d \cup {k} |-> IF x = k THEN v ELSE d[x] ]

Backfill(c) ==
  LET c1 == IF Has(c, "scan") THEN c ELSE Put(c, "scan", defaults.scan)
      c2 == IF Has(c1, "files") THEN c1 ELSE Put(c1, "files", defaults.files)
  IN IF Has(c2, "device") THEN c2 ELSE Put(c2, "device", defaults.device)

load_config(f) == IF f.st = "ok" THEN Backfill(f.doc) ELSE defaults

\* ------------------------------------------------- main(): the command line
Argv(list, scan, no_download, dl_all, download, device, output_dir, overrides) ==
  [ list |-> list, scan |-> scan, no_download |-> no_download, download_all |-> dl_all,
    download |-> download, device |-> device, output_dir |-> output_dir,
    overrides |-> overrides ]

\* --server, --resolution, --mode and --quality, when given (overrides)
CliServer == "http://cli"
CliScan == [resolution |-> 600, mode |-> "Gray", quality |-> "medium"]

\* len(sys.argv) > 1
HasArguments(v) ==
  \/ v.list \/ v.scan \/ v.no_download \/ v.download_all \/ v.overrides
  \/ v.download.some \/ v.device.some \/ v.output_dir.some

\* parser.parse_args(): a flag given on the command line wins over the default
\* taken from the configuration; --device goes through int().
parse_args(c, v) ==
  LET p == PyInt(DevStr(v.device.val))
      ns == [ server |-> IF v.overrides THEN Some(CliServer) ELSE Get(c, "server", NoneStr),
              device |-> IF v.device.some THEN DevInt(p.val)
                         ELSE IF Has(c, "device") THEN DevInt(c["device"]) ELSE DevNone,
              list |-> v.list, scan |-> v.scan, no_download |-> v.no_download,
              download_all |-> v.download_all, download |-> v.download,
              output_dir |-> IF v.output_dir.some THEN v.output_dir
                             ELSE Get(c["files"], "output_dir", NoneStr),
              resolution |-> IF v.overrides THEN Some(CliScan.resolution)
                             ELSE Get(c["scan"], "resolution", NoneInt),
              mode |-> IF v.overrides THEN Some(CliScan.mode)
                       ELSE Get(c["scan"], "mode", NoneStr),
              quality |-> IF v.overrides THEN Some(CliScan.quality)
                          ELSE Get(c["scan"], "quality", NoneStr),
              has_arguments |-> HasArguments(v) ]
  IN IF v.device.some /\ p.exc # "none"
     THEN [exc |-> "ArgumentError", ns |-> Unused]
     ELSE [exc |-> "none", ns |-> ns]

\* The chain of `if`s of main(): where control goes next.
AtDownload(a) == IF Truthy(a.download) THEN "download" ELSE "return"
AtDownloadAll(a) == IF a.download_all THEN "download_all" ELSE AtDownload(a)
AfterScan_elif(a) == "return"
AfterScan(a) == AtDownloadAll(a)
AtScan(a) == IF a.scan THEN "select" ELSE AtDownloadAll(a)
Dispatch(a) == IF ~a.has_arguments \/ a.list THEN "list" ELSE AtScan(a)

MainKeep == UNCHANGED <<cfgFile, argv>>
ScannerKeep == UNCHANGED <<devices, device_id, dirs, log, call, ret>>

LoadConfig ==
  /\ pc = "load"
  /\ config' = load_config(cfgFile)
  /\ pc' = "parse"
  /\ UNCHANGED <<args, steps, exc, exitStatus>>
  /\ ScannerKeep /\ MainKeep

ParseArgs ==
  /\ pc = "parse"
  /\ LET r == parse_args(config, argv) IN
       /\ args' = r.ns
       /\ exc' = r.exc
       /\ exitStatus' = IF r.exc = "none" THEN Running ELSE ExitUsage
       /\ pc' = IF r.exc = "none" THEN Dispatch(r.ns) ELSE "exited"
  /\ UNCHANGED <<config, steps>>
  /\ ScannerKeep /\ MainKeep

\* One method call of main(): its effect, and where main() goes from there.
MainCall(r, c, next) ==
  /\ Effect(r, c)
  /\ pc' = IF r.exc = "none" THEN next ELSE "exited"
  /\ UNCHANGED <<config, args>>
  /\ MainKeep

MainList ==
  /\ pc = "list"
  /\ \E r1 \in ContextResps, r2 \in FilesResps :
       MainCall(list_files(list_scanners(scanner, r1).s, r2),
                Call("list", "", NoneStr, DevNone, NoParams), "return")
  /\ UNCHANGED steps

MainSelect ==
  /\ pc = "select"
  /\ steps' = Append(steps, "scan")
  /\ \E r \in ContextResps :
       MainCall(select_scanner(scanner, args.device, r),
                Call("select_scanner", "", NoneStr, args.device, NoParams), "scan_a4")

ScanOutputDir(a) == IF a.no_download THEN NoneStr ELSE a.output_dir

MainScanA4 ==
  /\ pc = "scan_a4"
  /\ LET p == [resolution |-> args.resolution, mode |-> args.mode, quality |-> args.quality]
     IN \E rs \in ScanResps, rd \in FileResps :
          MainCall(scan_a4(scanner, ScanOutputDir(args), p, rs, rd),
                   Call("scan_a4", "", ScanOutputDir(args), DevNone, p), AfterScan(args))
  /\ UNCHANGED steps

MainDownloadAll ==
  /\ pc = "download_all"
  /\ steps' = Append(steps, "download_all")
  /\ \E rl \in FilesResps :
       \E outs \in [1..Len(rl.files) -> FileResps] :
         MainCall(download_all(scanner, args.output_dir, rl, outs),
                  Call("download_all", "", args.output_dir, DevNone, NoParams),
                  AtDownload(args))

MainDownload ==
  /\ pc = "download"
  /\ steps' = Append(steps, "download")
  /\ \E r \in FileResps :
       LET d == download_file(scanner, args.download.val, args.output_dir, r)
           e == IF d.exc = "none" /\ d.ret.k = "path"
                THEN [d EXCEPT !.s = Log(d.s, PrintEv("Downloaded", args.download.val, 0))]
                ELSE d
       IN MainCall(e, Call("download_file", args.download.val, args.output_dir,
                           DevNone, NoParams), "return")

MainReturn ==
  /\ pc = "return"
  /\ pc' = "done"
  /\ exitStatus' = 0
  /\ UNCHANGED <<config, args, steps, exc>>
  /\ ScannerKeep /\ MainKeep

\* The invocations explored: every combination of --list, --scan,
\* --download-all and --download, with and without --device and --output-dir,
\* and --no-download where it has an effect (with --scan).
MainArgvs ==
  { w \in { Argv(l, s, n, a, d, v, o, FALSE) :
              l \in BOOLEAN, s \in BOOLEAN, n \in BOOLEAN, a \in BOOLEAN,
              d \in {NoneStr, Some("a.jpg")},
              v \in {NoneRaw, Some(<<"1">>), Some(<<"1", "1">>), Some(<<"x">>)},
              o \in {NoneStr, Some("")} } :
      w.no_download => w.scan }
MainCfgFiles == {Absent, Parsed(Doc({"server", "device", "files"}, {}, {}))}

Init ==
  /\ InitScanner
  /\ pc = "load"
  /\ cfgFile \in MainCfgFiles
  /\ argv \in MainArgvs
  /\ config = Unused
  /\ args = Unused

Next ==
  \/ LoadConfig
  \/ ParseArgs
  \/ MainList
  \/ MainSelect
  \/ MainScanA4
  \/ MainDownloadAll
  \/ MainDownload
  \/ MainReturn

Spec == Init /\ [][Next]_vars

\* The start of main() alone, under every configuration file.
CfgArgvs ==
  { Argv(FALSE, FALSE, FALSE, FALSE, NoneStr, NoneRaw, o, v) :
      o \in {NoneStr, Some("")}, v \in BOOLEAN }

InitCfg ==
  /\ InitScanner
  /\ pc = "load"
  /\ cfgFile \in CfgFiles
  /\ argv \in CfgArgvs
  /\ config = Unused
  /\ args = Unused

NextCfg == LoadConfig \/ ParseArgs

SpecCfg == InitCfg /\ [][NextCfg]_vars

\* =================================================================== claims
IsHttp(e) == e.k = "http"
IsOpen(e) == e.k = "open"
IsFileReq(e) == e.k = "http" /\ e.m = "GET" /\ e.res = "file"
IsPost(e) == e.k = "http" /\ e.m = "POST" /\ e.res = "scan"
Requests(l) == SelectSeq(l, IsHttp)
Opens(l) == SelectSeq(l, IsOpen)
FileRequests(l) == SelectSeq(l, IsFileReq)
Posts(l) == SelectSeq(l, IsPost)
NoScannerSelected == PrintEv("No scanner selected. Use --device to select a scanner.", "", 0)

\* C1: scan_a4 called while no device is selected issues no HTTP request at
\* all, prints the "No scanner selected" message and returns None, whatever
\* output_dir, resolution, mode and quality are and whatever calls came before.
C1_NoDeviceNoRequest ==
  (call.op = "scan_a4" /\ ~device_id.some) =>
    /\ Requests(log) = <<>>
    /\ log = <<NoScannerSelected>>
    /\ ret = RetNone
    /\ exc = "none"
    /\ exitStatus = Running

C1_Witness ==
  /\ call.op = "scan_a4"
  /\ ~device_id.some
  /\ call.output_dir = Some("scans")
  /\ devices # <<>>

\* C2: select_scanner(n) sends at most the one GET context that fills an empty
\* cache and nothing else.  With no device after that, with n that int()
\* rejects, or with n outside 1..count, the process exits with status 1 and
\* device_id is what it was; with n in 1..count the process goes on and
\* device_id is the id of the n-th cached device.
C2_SelectScanner ==
  [][ (pc = "api" /\ call'.op = "select_scanner") =>
        LET p == PyInt(call'.n)
            reqs == Requests(log')
            count == Len(devices')
        IN /\ Len(reqs) = (IF devices = <<>> THEN 1 ELSE 0)
           /\ \A i \in 1..Len(reqs) : reqs[i].m = "GET" /\ reqs[i].res = "context"
           /\ IF count = 0 \/ p.exc # "none" \/ p.val < 1 \/ p.val > count
              THEN exitStatus' = ExitFatal /\ device_id' = device_id
              ELSE exitStatus' = Running /\ device_id' = Some(devices'[p.val].id) ]_vars

C2_Witness ==
  /\ call.op = "select_scanner"
  /\ call.n = DevInt(2)
  /\ Len(devices) = 1
  /\ exitStatus = ExitFatal
  /\ ~device_id.some

\* C5: a server call answered by a status other than 200 or by a network
\* failure is sent once and not again, gives its caller the failure value (an
\* empty list from list_scanners and list_files, None from download_file and
\* scan_a4) and leaves the process running.
C5_NoRetry ==
  LET reqs == Requests(log) IN
  /\ call.op \in {"list_scanners", "list_files"} =>
       /\ Len(reqs) = 1
       /\ reqs[1].m = "GET"
       /\ reqs[1].res = (IF call.op = "list_scanners" THEN "context" ELSE "files")
       /\ reqs[1].resp # "ok" => (ret = RetList(<<>>) /\ exitStatus = Running)
  /\ call.op = "download_file" =>
       /\ Len(reqs) = 1
       /\ IsFileReq(reqs[1]) /\ reqs[1].name = call.filename
       /\ reqs[1].resp # "ok" => (ret = RetNone /\ exitStatus = Running)
  /\ (call.op = "scan_a4" /\ reqs # <<>>) =>
       /\ IsPost(reqs[1])
       /\ reqs[1].resp # "ok" => (Len(reqs) = 1 /\ ret = RetNone /\ exitStatus = Running)

C5_Witness ==
  /\ call.op = "scan_a4"
  /\ Len(Posts(log)) = 1
  /\ Posts(log)[1].resp = "bad"

\* C7: when the POST scan answers 200 with a file name, the file is requested
\* if and only if output_dir is not None; it is then written to the working
\* directory for output_dir "" and under output_dir otherwise.  When the answer
\* names no file, nothing is requested and nothing written.
C7_DownloadIffOutputDir ==
  call.op = "scan_a4" =>
    LET posts == Posts(log)
        gets == FileRequests(log)
        opens == Opens(log)
        d == call.output_dir
    IN (posts # <<>> /\ posts[1].resp = "ok") =>
         LET rp == posts[1].reply[1] IN
         IF rp.has
         THEN /\ Len(gets) = (IF d.some THEN 1 ELSE 0)
              /\ \A i \in 1..Len(gets) : gets[i].name = rp.name
              /\ Len(opens) = (IF gets # <<>> /\ gets[1].resp = "ok" THEN 1 ELSE 0)
              /\ \A i \in 1..Len(opens) :
                   opens[i].path = (IF d.val = "" THEN <<rp.name>> ELSE <<d.val, rp.name>>)
         ELSE gets = <<>> /\ opens = <<>>

C7_Witness ==
  /\ call.op = "scan_a4"
  /\ call.output_dir = Some("")
  /\ ret = RetPath(<<"a.jpg">>)

\* C3: download_all over a non-empty listing of k files prints the count k
\* before the first file is requested and then requests all k files in the
\* order of the listing, whatever happens to each download.
IsFilesReq(e) == e.k = "http" /\ e.m = "GET" /\ e.res = "files"
C3_AllFilesAttempted ==
  call.op = "download_all" =>
    LET lists == SelectSeq(log, IsFilesReq)
        gets == FileRequests(log)
    IN (lists # <<>> /\ lists[1].resp = "ok" /\ lists[1].reply[1].files # <<>>) =>
         LET files == lists[1].reply[1].files
             k == Len(files)
         IN /\ \E i \in 1..Len(log) :
                 /\ log[i] = PrintEv("Found files", "", k)
                 /\ \A j \in 1..Len(log) : IsFileReq(log[j]) => i < j
            /\ Len(gets) = k
            /\ \A i \in 1..Len(gets) : i <= k /\ gets[i].name = files[i].name

\* C4: the process ends with a status other than zero exactly when device
\* selection failed (no scanners found, or a device number out of range) or
\* the device number given could not be parsed; every other run ends with
\* status zero, also when a call to the server failed.
C4_ExitStatus ==
  pc \in {"done", "exited"} =>
    (exitStatus # 0 <=> exc \in {"SystemExit", "ArgumentError"})

\* C6: whatever the configuration file holds, the configuration load_config
\* returns has a value for server, device, scan.resolution, scan.mode,
\* scan.quality and files.output_dir, and a key the file leaves out has its
\* default value.
FieldPaths ==
  { <<"server">>, <<"device">>, <<"scan", "resolution">>, <<"scan", "mode">>,
    <<"scan", "quality">>, <<"files", "output_dir">> }
HasField(d, f) == Has(d, f[1]) /\ (Len(f) = 2 => Has(d[f[1]], f[2]))
FieldOf(d, f) == IF Len(f) = 2 THEN d[f[1]][f[2]] ELSE d[f[1]]
C6_AllFieldsResolve ==
  pc = "parse" =>
    \A f \in FieldPaths :
      /\ HasField(config, f)
      /\ (cfgFile.st # "ok" \/ ~HasField(cfgFile.doc, f)) =>
           FieldOf(config, f) = FieldOf(defaults, f)

\* C8: download_file answered by 200 opens join(output_dir, name) when an
\* output_dir is given and name in the working directory otherwise, the
\* directory exists by then, and the path is returned when the write goes
\* through.  Creating the directory is idempotent: a call of download_file,
\* download_all or scan_a4 on a directory that exists neither fails there nor
\* changes the directories.
C8_DownloadDestination ==
  [][ pc = "api" =>
        /\ (call'.op = "download_file" /\ Requests(log')[1].resp = "ok") =>
             LET d == call'.output_dir
                 dest == IF d.some THEN os_path_join(d.val, call'.filename)
                         ELSE <<call'.filename>>
                 opens == Opens(log')
                 wr == Requests(log')[1].reply[1].wr
             IN /\ Len(opens) = 1
                /\ opens[1].path = dest
                /\ Truthy(d) => d.val \in dirs'
                /\ opens[1].resp = "ok" <=> wr
                /\ wr => (ret' = RetPath(dest) /\ exc' = "none")
        /\ dirs \subseteq dirs'
        /\ ( /\ call'.op \in {"download_file", "download_all", "scan_a4"}
             /\ Truthy(call'.output_dir)
             /\ call'.output_dir.val \in dirs ) =>
             /\ dirs' = dirs
             /\ \A i \in 1..Len(log') :
                  log'[i].k = "makedirs" => log'[i].resp = "exists" ]_vars

C8_Witness ==
  /\ call.op = "download_file"
  /\ ret = RetPath(<<"scans", "a.jpg">>)
  /\ \E i \in 1..Len(log) : log[i] = MkdirEv("scans", "exists")

\* C9 as stated: each of the scan, download-all and download steps runs if and
\* only if its own flag was given, in that order, whatever else is on the
\* command line and however an earlier step ended.  Read on the runs that the
\* parser accepted and that no uncaught file error cut short.
FlagSteps(v) ==
  (IF v.scan THEN <<"scan">> ELSE <<>>)
  \o (IF v.download_all THEN <<"download_all">> ELSE <<>>)
  \o (IF v.download.some THEN <<"download">> ELSE <<>>)
IsPrefix(a, b) == Len(a) <= Len(b) /\ SubSeq(b, 1, Len(a)) = a
ListMode(v) == v.list \/ ~HasArguments(v)
====
